---- MODULE Spec2Model ----
(***************************************************************************)
(* Cloudcore sign-up and e-mail verification backend.                      *)
(*                                                                         *)
(* Two Express handlers (POST /api/signup, GET /api/verify-email) run over *)
(* one MongoDB collection of User documents.  Every `await` of a handler   *)
(* is a point where other requests may run, so each handler is cut at its  *)
(* awaits into one action per store operation: the action of a handler's   *)
(* first part runs from the arrival of the request to the call of save()   *)
(* and reads the store once (findOne); the second is save() and what       *)
(* follows it.  Strings are sequences of one-character strings, so that    *)
(* lowercase, trim, length and the e-mail pattern are computed and not     *)
(* assumed.                                                                *)
(*                                                                         *)
(* The store is taken to be connected and its two unique indexes (email,   *)
(* verificationToken) built, in schema order, as Mongoose's autoIndex      *)
(* does at start-up.                                                       *)
(***************************************************************************)
EXTENDS Integers, Sequences, FiniteSets, TLC

(***************************************************************************)
(* Bounds of the model                                                     *)
(***************************************************************************)
MaxReqs == 3          \* number of HTTP requests served in one behaviour

\* number of requests served when the inputs are drawn from the wide sets
\* AllBodies and AllQueries (MaxFewReqs <= MaxReqs)
MaxFewReqs == 2

Reqs == 1..MaxReqs

\* the values Date.now() returns in the model (default of createdAt)
NowChoices == {1}

(***************************************************************************)
(* Strings                                                                 *)
(***************************************************************************)
Upper == <<"A","B","C","D","E","F","G","H","I","J","K","L","M",
           "N","O","P","Q","R","S","T","U","V","W","X","Y","Z">>
Lower == <<"a","b","c","d","e","f","g","h","i","j","k","l","m",
           "n","o","p","q","r","s","t","u","v","w","x","y","z">>

LowerChar(c) ==
    IF \E i \in 1..26 : Upper[i] = c
    THEN Lower[CHOOSE i \in 1..26 : Upper[i] = c]
    ELSE c

\* schema option `lowercase: true` (String.prototype.toLowerCase)
lowercase(s) == [i \in 1..Len(s) |-> LowerChar(s[i])]

IsWhiteSpace(c) == c \in {" ", "\t", "\n", "\r"}
IsLineTerminator(c) == c \in {"\n", "\r"}

SetMin(S) == CHOOSE m \in S : \A n \in S : m <= n
SetMax(S) == CHOOSE m \in S : \A n \in S : n <= m

\* schema option `trim: true` (String.prototype.trim)
trim(s) ==
    LET keep == {i \in 1..Len(s) : ~IsWhiteSpace(s[i])}
    IN  IF keep = {} THEN <<>> ELSE SubSeq(s, SetMin(keep), SetMax(keep))

\* /.+@.+\..+/.test(s): unanchored; `.` matches any character but a line
\* terminator.
emailPattern(s) ==
    \E i \in 1..Len(s) : \E j \in 1..Len(s) :
        /\ s[i] = "@"
        /\ i >= 2 /\ ~IsLineTerminator(s[i-1])
        /\ j >= i + 2 /\ s[j] = "."
        /\ \A k \in (i+1)..(j-1) : ~IsLineTerminator(s[k])
        /\ j + 1 <= Len(s) /\ ~IsLineTerminator(s[j+1])

(***************************************************************************)
(* crypto.randomBytes(32).toString('hex')                                  *)
(***************************************************************************)
TokenBytes == 32
HexDigits == <<"0","1","2","3","4","5","6","7","8","9","a","b","c","d","e","f">>

\* Buffer.toString('hex'): two hex digits per byte, high nibble first
toHex(bytes) ==
    [i \in 1..(2 * Len(bytes)) |->
        LET b == bytes[(i + 1) \div 2]
        IN  IF i % 2 = 1 THEN HexDigits[(b \div 16) + 1] ELSE HexDigits[(b % 16) + 1]]

\* the byte strings crypto.randomBytes(n) is allowed to return in the model
ByteChoices == {10, 161}
randomBytes(n) == {[i \in 1..n |-> b] : b \in ByteChoices}

\* the values line 74 can assign to verificationToken
FreshTokens == {toHex(bytes) : bytes \in randomBytes(TokenBytes)}

(***************************************************************************)
(* bcrypt                                                                  *)
(***************************************************************************)
\* bcrypt.genSalt(10): "$2a$10$" followed by the random salt
SaltChoices == {<<"s","A","l","t">>}
genSalt == {<<"$","2","a","$","1","0","$">> \o s : s \in SaltChoices}

\* bcrypt.hash(password, salt): the salt string followed by a digest of the
\* salted password.  The digest itself is abstracted as an injective
\* function of the password (its characters reversed); only its being a
\* function of (password, salt) that is prefixed by the salt is used.
bcryptHash(password, salt) ==
    salt \o [i \in 1..Len(password) |-> password[Len(password) + 1 - i]]

(***************************************************************************)
(* User entity (models/User.js)                                            *)
(***************************************************************************)
HasToken(u) == "verificationToken" \in DOMAIN u

\* the constructor with the email's `lowercase` setter left out
NewUser_NoLowercase(fullName, email, password, verificationToken, now) ==
    [fullName          |-> trim(fullName),
     email             |-> trim(email),
     password          |-> password,
     isVerified        |-> FALSE,
     verificationToken |-> verificationToken,
     createdAt         |-> now]

\* new User({fullName, email, password, verificationToken}): setters run on
\* assignment, defaults fill isVerified and createdAt.
NewUser(fullName, email, password, verificationToken, now) ==
    [fullName          |-> trim(fullName),
     email             |-> trim(lowercase(email)),
     password          |-> password,
     isVerified        |-> FALSE,
     verificationToken |-> verificationToken,
     createdAt         |-> now]

\* the schema paths whose validators reject the document
ValidationErrors(u) ==
    {p \in {"fullName", "email", "password"} :
        \/ p = "fullName" /\ u.fullName = <<>>
        \/ p = "email" /\ (u.email = <<>> \/ ~emailPattern(u.email))
        \/ p = "password" /\ (u.password = <<>> \/ Len(u.password) < 8)}

\* ValidationError.message for a set of failing paths
ValidationMessage(paths) ==
    CASE paths = {"fullName"} ->
            "User validation failed: fullName: Full name is required"
      [] paths = {"email"} ->
            "User validation failed: email: Please enter a valid email address"
      [] paths = {"fullName", "email"} ->
            "User validation failed: fullName: Full name is required, email: Please enter a valid email address"
      [] OTHER ->
            "User validation failed"

\* the hook without its isModified('password') test
preSave_AlwaysHash(u, passwordModified, salt) ==
    [u EXCEPT !.password = bcryptHash(u.password, salt)]

\* the hook with the hashing left out
preSave_NoHash(u, passwordModified, salt) == u

\* UserSchema.pre('save'): hash the password only when it was modified
preSave(u, passwordModified, salt) ==
    IF ~passwordModified
    THEN u
    ELSE [u EXCEPT !.password = bcryptHash(u.password, salt)]

(***************************************************************************)
(* The users collection.  A document's _id is its index in `users`.        *)
(***************************************************************************)
Ids(us) == 1..Len(us)

\* Mongoose casts a query filter through the path's setters
CastEmail(email) == trim(lowercase(email))

\* User.findOne({ email }): the _id of the matching document, 0 for null
findOneByEmail(us, email) ==
    LET hit == {i \in Ids(us) : us[i].email = CastEmail(email)}
    IN  IF hit = {} THEN 0 ELSE SetMin(hit)

\* a lookup whose filter matches any document that still has a token
findOneByToken_AnyToken(us, token) ==
    LET hit == {i \in Ids(us) : HasToken(us[i])}
    IN  IF hit = {} THEN 0 ELSE SetMin(hit)

\* User.findOne({ verificationToken: token })
findOneByToken(us, token) ==
    LET hit == {i \in Ids(us) : HasToken(us[i]) /\ us[i].verificationToken = token}
    IN  IF hit = {} THEN 0 ELSE SetMin(hit)

\* insertOne under the unique indexes, checked in the order they were
\* built: email first, then the sparse index on verificationToken.
\* The result names the index whose key is duplicated, or "ok".
InsertResult(us, u) ==
    IF \E i \in Ids(us) : us[i].email = u.email
    THEN "email"
    ELSE IF HasToken(u) /\ \E i \in Ids(us) :
                HasToken(us[i]) /\ us[i].verificationToken = u.verificationToken
    THEN "verificationToken"
    ELSE "ok"

\* the update writing the negation of the loaded isVerified
VerifyUpdate_Toggle(u) ==
    [k \in (DOMAIN u) \ {"verificationToken"} |->
        IF k = "isVerified" THEN ~u[k] ELSE u[k]]

\* the update with the $unset of the token left out
VerifyUpdate_KeepToken(u) == [u EXCEPT !.isVerified = TRUE]

\* the update with the $set of isVerified left out
VerifyUpdate_KeepUnverified(u) ==
    [k \in (DOMAIN u) \ {"verificationToken"} |-> u[k]]

\* updateOne({_id}, {$set: {isVerified: true}, $unset: {verificationToken: 1}})
\* as sent by user.save() in the verify handler: one atomic document update
VerifyUpdate(u) ==
    [k \in (DOMAIN u) \ {"verificationToken"} |->
        IF k = "isVerified" THEN TRUE ELSE u[k]]

(***************************************************************************)
(* Configuration and responses                                             *)
(***************************************************************************)
EMAIL_USER == <<"n","o","r","e","p","l","y","@","c",".","c">>

Json(status, msg) == [status |-> status, type |-> "json", body |-> msg]
Send(status, text) == [status |-> status, type |-> "text", body |-> text]
\* res.redirect(`${process.env.FRONTEND_URL}/thank-you-verified.html?status=...`)
Redirect(statusParam) ==
    [status |-> 302, type |-> "redirect",
     body |-> IF statusParam = "success"
              THEN "http://127.0.0.1:5500/thank-you-verified.html?status=success"
              ELSE "http://127.0.0.1:5500/thank-you-verified.html?status=already_verified"]

MsgAllFields == "Please enter all fields."
MsgPassword == "Password must be at least 8 characters long."
MsgEmail == "Please enter a valid email address."
MsgExists == "A user with this email already exists."
MsgCreated == "Sign up successful! Please check your email for verification."
MsgTokenMissing == "Verification token missing."
MsgTokenInvalid == "Invalid or expired verification token."

\* JavaScript truthiness of a field of req.body / req.query
Truthy(obj, k) == k \in DOMAIN obj /\ obj[k] # <<>>

(***************************************************************************)
(* The verification mail (server.js 91-106).  A template literal is the    *)
(* sequence of its literal chunks and substituted values.  Neither literal *)
(* of the source contains a `${...}` substitution, so both are constant    *)
(* text.                                                                   *)
(***************************************************************************)
verificationLink(verificationToken) ==
    <<"<span class=\"math-inline\">{process.env.FRONTEND_URL}",
      "/thank-you-verify.html?token=",
      "</span>{verificationToken}">>

mailOptions(user, link) ==
    [from    |-> EMAIL_USER,
     to      |-> user.email,
     subject |-> "Verify Your Cloudcore Account",
     html    |-> <<"<p>Hello <span class=\"math-inline\">{user.fullName},</p>",
                   "<a href=\"", "{verificationLink}", "\" style=",
                   ">Verify My Account</a>",
                   "<p>This link will expire in 24 hours.</p>">>]

(***************************************************************************)
(* Request inputs                                                          *)
(***************************************************************************)
NameAnn == <<"A","n","n">>
NameBob == <<"B","o","b">>
NameBlank == <<" ">>
EmailAnnMixed == <<"A","n","n","@","X",".","c","o","m">>
EmailAnnLower == <<"a","n","n","@","x",".","c","o","m">>
EmailBob == <<"a","@","b",".","c">>
PwLong == <<"l","o","n","g","e","n","o","u","g","h">>
Pw8 == <<"1","2","3","4","5","6","7","8">>

SignupBodies ==
    { [fullName |-> NameAnn,   email |-> EmailAnnMixed, password |-> PwLong],
      [fullName |-> NameAnn,   email |-> EmailAnnLower, password |-> PwLong],
      [fullName |-> NameBlank, email |-> EmailAnnLower, password |-> PwLong],
      [fullName |-> NameBob,   email |-> EmailBob,      password |-> Pw8],
      [fullName |-> NameAnn,   email |-> EmailAnnLower] }

\* an object without its key k (the key is undefined)
Drop(obj, k) == [x \in (DOMAIN obj) \ {k} |-> obj[x]]

\* bodies around every check of the sign-up handler: each field present,
\* empty or absent, the password one character short of the limit or at
\* it, the email with or without the shape .+@.+\..+
EmailNoAt == <<"a", ".", "b">>
Pw7 == <<"1","2","3","4","5","6","7">>
FullBodies ==
    [fullName : {NameAnn, <<>>},
     email    : {EmailBob, EmailNoAt, <<>>},
     password : {Pw8, Pw7, <<>>}]
AllBodies ==
    FullBodies \cup
    {Drop(body, k) : body \in {b \in FullBodies : b.fullName = NameAnn},
                     k \in {"fullName", "email", "password"}}

\* req.query of a verify request: a token randomBytes can return (whether
\* or not a sign-up has drawn it yet), or no token parameter at all
VerifyQueries ==
    {[token |-> t] : t \in FreshTokens} \cup {[utm |-> <<"x">>]}

\* the same, and ?token= with an empty value
AllQueries == VerifyQueries \cup {[token |-> <<>>]}

(***************************************************************************)
(* State                                                                   *)
(***************************************************************************)
VARIABLES
    users,   \* the users collection: sequence of documents, _id = index
    kind,    \* kind[r]: "idle", "signup" or "verify"
    pc,      \* pc[r]: "idle", "save" (awaiting user.save()) or "done"
    req,     \* req[r]: req.body of a sign-up, req.query of a verify
    local,   \* local[r]: the handler's `user` document and its _id
    resp,    \* resp[r]: the responses sent on request r, in order
    mail,    \* mail[r]: the sendMail call made by request r
    proc     \* the server process: its database connection and its exit

vars == <<users, kind, pc, req, local, resp, mail, proc>>

NoObject == [x \in {} |-> 0]
NoLocal == [id |-> 0, user |-> NoObject]
NoMail == [state |-> "none", attempts |-> 0, options |-> NoObject]

Init ==
    /\ users = <<>>
    /\ kind = [r \in Reqs |-> "idle"]
    /\ pc = [r \in Reqs |-> "idle"]
    /\ req = [r \in Reqs |-> NoObject]
    /\ local = [r \in Reqs |-> NoLocal]
    /\ resp = [r \in Reqs |-> <<>>]
    /\ mail = [r \in Reqs |-> NoMail]
    /\ proc = [db |-> "connecting", connects |-> 1, exited |-> FALSE, exitCode |-> 0]

(***************************************************************************)
(* Process start: connectDB() of config/db.js, called once by server.js    *)
(***************************************************************************)
\* the process has not exited; handlers and callbacks run only then
Running == ~proc.exited

\* operations on the store are buffered until the connection is open
Connected == Running /\ proc.db = "connected"

\* mongoose.connect resolves
ConnectOk ==
    /\ Running /\ proc.db = "connecting"
    /\ proc' = [proc EXCEPT !.db = "connected"]
    /\ UNCHANGED <<users, kind, pc, req, local, resp, mail>>

\* a catch block that logs the error and lets the process go on
ConnectFail_KeepServing ==
    /\ Running /\ proc.db = "connecting"
    /\ proc' = [proc EXCEPT !.db = "failed"]
    /\ UNCHANGED <<users, kind, pc, req, local, resp, mail>>

\* mongoose.connect rejects: the catch block logs and calls process.exit(1)
ConnectFail ==
    /\ Running /\ proc.db = "connecting"
    /\ proc' = [proc EXCEPT !.db = "failed", !.exited = TRUE, !.exitCode = 1]
    /\ UNCHANGED <<users, kind, pc, req, local, resp, mail>>

\* requests take the request slots in the order they are served
NextSlot(r) == pc[r] = "idle" /\ \A q \in Reqs : q < r => pc[q] # "idle"

Respond(r, response) ==
    /\ resp' = [resp EXCEPT ![r] = Append(@, response)]
    /\ pc' = [pc EXCEPT ![r] = "done"]

(***************************************************************************)
(* POST /api/signup                                                        *)
(***************************************************************************)
\* the checks with the email shape tested before the password length
SignupCheck_EmailFirst(body) ==
    IF ~Truthy(body, "fullName") \/ ~Truthy(body, "email") \/ ~Truthy(body, "password")
    THEN MsgAllFields
    ELSE IF ~emailPattern(body.email)
    THEN MsgEmail
    ELSE IF Len(body.password) < 8
    THEN MsgPassword
    ELSE "ok"

\* lines 49-62: the message of the first failing check, "ok" if none fails
SignupCheck(body) ==
    IF ~Truthy(body, "fullName") \/ ~Truthy(body, "email") \/ ~Truthy(body, "password")
    THEN MsgAllFields
    ELSE IF Len(body.password) < 8
    THEN MsgPassword
    ELSE IF ~emailPattern(body.email)
    THEN MsgEmail
    ELSE "ok"

\* lines 42-85: validate the body, look the email up, answer 400 on a hit,
\* else draw the token, build the document and call save()
SignupRequest(r, body) ==
    /\ NextSlot(r)
    /\ IF SignupCheck(body) # "ok" THEN Running ELSE Connected
    /\ kind' = [kind EXCEPT ![r] = "signup"]
    /\ req' = [req EXCEPT ![r] = body]
    /\ IF SignupCheck(body) # "ok"
       THEN /\ Respond(r, Json(400, SignupCheck(body)))
            /\ UNCHANGED local
       ELSE IF findOneByEmail(users, body.email) # 0
       THEN /\ Respond(r, Json(400, MsgExists))
            /\ UNCHANGED local
       ELSE /\ \E verificationToken \in FreshTokens : \E now \in NowChoices :
                local' = [local EXCEPT ![r] =
                    [id |-> 0,
                     user |-> NewUser(body.fullName, body.email,
                                      body.password, verificationToken, now)]]
            /\ pc' = [pc EXCEPT ![r] = "save"]
            /\ UNCHANGED resp
    /\ UNCHANGED <<users, mail, proc>>

\* the catch block without its ValidationError branch
SignupCatch_NoValidationError(err) ==
    IF err.code = 11000 /\ "email" \in err.keyPattern
    THEN Json(400, MsgExists)
    ELSE Send(500, "Server Error")

\* the catch block without its duplicate-key branch
SignupCatch_NoDuplicateKey(err) ==
    IF err.name = "ValidationError"
    THEN Json(400, err.message)
    ELSE Send(500, "Server Error")

\* lines 120-131: the response of the catch block for a rejected save()
SignupCatch(err) ==
    IF err.name = "ValidationError"
    THEN Json(400, err.message)
    ELSE IF err.code = 11000 /\ "email" \in err.keyPattern
    THEN Json(400, MsgExists)
    ELSE Send(500, "Server Error")

\* lines 85-118: save() validates, hashes and inserts; on success the mail
\* is handed to the transporter and 201 is sent in the same turn
SignupSave(r) ==
    /\ Connected
    /\ kind[r] = "signup" /\ pc[r] = "save"
    /\ LET user == local[r].user
           errors == ValidationErrors(user)
       IN  IF errors # {}
           THEN /\ Respond(r, SignupCatch([name |-> "ValidationError", code |-> 0,
                                           keyPattern |-> {},
                                           message |-> ValidationMessage(errors)]))
                /\ UNCHANGED <<users, local, mail>>
           ELSE \E salt \in genSalt :
                LET hashed == preSave(user, TRUE, salt)
                    result == InsertResult(users, hashed)
                IN  IF result # "ok"
                    THEN /\ Respond(r, SignupCatch([name |-> "MongoServerError",
                                                    code |-> 11000,
                                                    keyPattern |-> {result},
                                                    message |-> "E11000 duplicate key error"]))
                         /\ UNCHANGED <<users, local, mail>>
                    ELSE /\ users' = Append(users, hashed)
                         /\ local' = [local EXCEPT ![r] =
                                        [id |-> Len(users) + 1, user |-> hashed]]
                         /\ mail' = [mail EXCEPT ![r] =
                                [state |-> "pending",
                                 attempts |-> mail[r].attempts + 1,
                                 options |-> mailOptions(hashed,
                                     verificationLink(hashed.verificationToken))]]
                         /\ Respond(r, Json(201, MsgCreated))
    /\ UNCHANGED <<kind, req, proc>>

\* lines 108-115: the sendMail callback; either outcome is only logged
MailSent(r) ==
    /\ Running
    /\ mail[r].state = "pending"
    /\ mail' = [mail EXCEPT ![r].state = "sent"]
    /\ UNCHANGED <<users, kind, pc, req, local, resp, proc>>

\* a failed delivery that is handed to the transporter again
MailError_Retry(r) ==
    /\ Running
    /\ mail[r].state = "pending"
    /\ mail' = [mail EXCEPT ![r].attempts = @ + 1]
    /\ UNCHANGED <<users, kind, pc, req, local, resp, proc>>

\* a failed delivery that is surfaced to the caller
MailError_Surfaced(r) ==
    /\ Running
    /\ mail[r].state = "pending"
    /\ mail' = [mail EXCEPT ![r].state = "error"]
    /\ resp' = [resp EXCEPT ![r] = Append(@, Send(500, "Server Error"))]
    /\ UNCHANGED <<users, kind, pc, req, local, proc>>

MailError(r) ==
    /\ Running
    /\ mail[r].state = "pending"
    /\ mail' = [mail EXCEPT ![r].state = "error"]
    /\ UNCHANGED <<users, kind, pc, req, local, resp, proc>>

(***************************************************************************)
(* GET /api/verify-email                                                   *)
(***************************************************************************)
\* lines 138-166: reject a missing token, look the token up; 400 on null,
\* redirect when already verified, else modify the loaded document and
\* call save()
VerifyRequest(r, query) ==
    /\ NextSlot(r)
    /\ IF ~Truthy(query, "token") THEN Running ELSE Connected
    /\ kind' = [kind EXCEPT ![r] = "verify"]
    /\ req' = [req EXCEPT ![r] = query]
    /\ IF ~Truthy(query, "token")
       THEN /\ Respond(r, Send(400, MsgTokenMissing))
            /\ UNCHANGED local
       ELSE LET id == findOneByToken(users, query.token)
            IN  IF id = 0
                THEN /\ Respond(r, Send(400, MsgTokenInvalid))
                     /\ UNCHANGED local
                ELSE IF users[id].isVerified
                THEN /\ Respond(r, Redirect("already_verified"))
                     /\ UNCHANGED local
                ELSE /\ local' = [local EXCEPT ![r] =
                                    [id |-> id, user |-> VerifyUpdate(users[id])]]
                     /\ pc' = [pc EXCEPT ![r] = "save"]
                     /\ UNCHANGED resp
    /\ UNCHANGED <<users, mail, proc>>

\* lines 166-169: save() updates the stored document by _id (the password
\* was not modified, so the hook leaves it alone), then the redirect
VerifySave(r) ==
    /\ Connected
    /\ kind[r] = "verify" /\ pc[r] = "save"
    /\ users' = [users EXCEPT ![local[r].id] =
                    preSave(VerifyUpdate(@), FALSE, <<>>)]
    /\ Respond(r, Redirect("success"))
    /\ UNCHANGED <<kind, req, local, mail, proc>>

Next ==
    \/ ConnectOk
    \/ ConnectFail
    \/ \E r \in Reqs : \E body \in SignupBodies : SignupRequest(r, body)
    \/ \E r \in Reqs : SignupSave(r)
    \/ \E r \in Reqs : MailSent(r)
    \/ \E r \in Reqs : MailError(r)
    \/ \E r \in Reqs : \E query \in VerifyQueries : VerifyRequest(r, query)
    \/ \E r \in Reqs : VerifySave(r)

Spec == Init /\ [][Next]_vars

(***************************************************************************)
(* Rejected store operations and the wide inputs                           *)
(***************************************************************************)
\* an error of the driver that is neither a validation nor a duplicate key
StoreError ==
    [name |-> "MongoNetworkError", code |-> 0, keyPattern |-> {},
     message |-> "connection closed"]

\* lines 66, 120-131: User.findOne rejects in the sign-up handler
SignupFindError(r, body) ==
    /\ NextSlot(r)
    /\ Connected
    /\ SignupCheck(body) = "ok"
    /\ kind' = [kind EXCEPT ![r] = "signup"]
    /\ req' = [req EXCEPT ![r] = body]
    /\ Respond(r, SignupCatch(StoreError))
    /\ UNCHANGED <<users, local, mail, proc>>

\* lines 85, 120-131: user.save() rejects with a driver error
SignupSaveError(r) ==
    /\ Connected
    /\ kind[r] = "signup" /\ pc[r] = "save"
    /\ ValidationErrors(local[r].user) = {}
    /\ Respond(r, SignupCatch(StoreError))
    /\ UNCHANGED <<users, kind, req, local, mail, proc>>

\* lines 149, 171-175: User.findOne rejects in the verify handler
VerifyFindError(r, query) ==
    /\ NextSlot(r)
    /\ Connected
    /\ Truthy(query, "token")
    /\ kind' = [kind EXCEPT ![r] = "verify"]
    /\ req' = [req EXCEPT ![r] = query]
    /\ Respond(r, Send(500, "Server Error during email verification."))
    /\ UNCHANGED <<users, local, mail, proc>>

\* lines 166, 171-175: user.save() rejects in the verify handler
VerifySaveError(r) ==
    /\ Connected
    /\ kind[r] = "verify" /\ pc[r] = "save"
    /\ Respond(r, Send(500, "Server Error during email verification."))
    /\ UNCHANGED <<users, kind, req, local, mail, proc>>

FewReqs == 1..MaxFewReqs

\* the server with every input of AllBodies and AllQueries and a store whose
\* operations may be rejected, serving at most MaxFewReqs requests
NextInputs ==
    \/ ConnectOk
    \/ ConnectFail
    \/ \E r \in FewReqs : \E body \in AllBodies : SignupRequest(r, body)
    \/ \E r \in FewReqs : \E body \in AllBodies : SignupFindError(r, body)
    \/ \E r \in FewReqs : SignupSave(r)
    \/ \E r \in FewReqs : SignupSaveError(r)
    \/ \E r \in FewReqs : MailSent(r)
    \/ \E r \in FewReqs : MailError(r)
    \/ \E r \in FewReqs : \E query \in AllQueries : VerifyRequest(r, query)
    \/ \E r \in FewReqs : \E query \in AllQueries : VerifyFindError(r, query)
    \/ \E r \in FewReqs : VerifySave(r)
    \/ \E r \in FewReqs : VerifySaveError(r)

SpecInputs == Init /\ [][NextInputs]_vars

(***************************************************************************)
(* Vocabulary of the properties                                            *)
(***************************************************************************)
Created == Json(201, MsgCreated)
Duplicate == Json(400, MsgExists)
InvalidToken == Send(400, MsgTokenInvalid)

\* the steps of a request, told by its program counter
SignupLookupStep(r) == pc[r] = "idle" /\ kind'[r] = "signup"
SignupSaveStep(r) == kind[r] = "signup" /\ pc[r] = "save" /\ pc'[r] = "done"
VerifyLookupStep(r) == pc[r] = "idle" /\ kind'[r] = "verify"
VerifySaveStep(r) == kind[r] = "verify" /\ pc[r] = "save" /\ pc'[r] = "done"

\* the documents of `us` that hold token t
Holders(us, t) == {i \in Ids(us) : HasToken(us[i]) /\ us[i].verificationToken = t}

\* sign-up r got past the handler's checks and the lookup, and called save()
CalledSave(r) == kind[r] = "signup" /\ local[r].user # NoObject

\* the document sign-up r is about to insert passes the entity's validators,
\* and no stored document has its email
ValidAndUnregistered(r) ==
    /\ ValidationErrors(local[r].user) = {}
    /\ findOneByEmail(users, req[r].email) = 0

\* a lookup by email right after the step returns the unverified, hashed record
LookupAfterSignup(r) ==
    LET id == findOneByEmail(users', req[r].email)
    IN  /\ id # 0
        /\ users'[id].isVerified = FALSE
        /\ HasToken(users'[id])
        /\ users'[id].password # req[r].password

(***************************************************************************)
(* C1                                                                      *)
(***************************************************************************)
\* C1 (as stated): every sign-up whose fields pass all checks and whose email
\* is not registered when it inserts is answered 201, and a lookup by that
\* email right afterwards returns a record with isVerified = false, a token
\* and a stored password different from the plaintext.
C1_ValidSignupCreates ==
    [][\A r \in Reqs :
        (SignupSaveStep(r) /\ ValidAndUnregistered(r))
            => (resp'[r] = <<Created>> /\ LookupAfterSignup(r))]_vars

\* C1 (amended): the same, for sign-ups whose drawn token is not held by a
\* stored record.
C1_ValidSignupCreatesFreshToken ==
    [][\A r \in Reqs :
        (/\ SignupSaveStep(r)
         /\ ValidAndUnregistered(r)
         /\ Holders(users, local[r].user.verificationToken) = {})
            => (resp'[r] = <<Created>> /\ LookupAfterSignup(r))]_vars

\* a sign-up was answered 201 and its record is stored unverified, with a
\* token and a hash in place of the submitted password
C1_Witness ==
    \E r \in Reqs :
        /\ kind[r] = "signup" /\ resp[r] = <<Created>>
        /\ local[r].id \in Ids(users)
        /\ users[local[r].id].isVerified = FALSE
        /\ HasToken(users[local[r].id])
        /\ users[local[r].id].password # req[r].password

(***************************************************************************)
(* C2                                                                      *)
(***************************************************************************)
\* C2: a verify request whose token is stored on an unverified user goes on
\* to save that user, and its save sets isVerified, removes the token (both
\* in the one update) and answers with the redirect to status=success.
C2_ValidTokenVerifies ==
    [][\A r \in Reqs :
        /\ (VerifyLookupStep(r) /\ Truthy(req'[r], "token"))
            => \A i \in Holders(users, req'[r].token) :
                 ~users[i].isVerified
                    => (/\ pc'[r] = "save"
                        /\ local'[r].id \in Holders(users, req'[r].token))
        /\ VerifySaveStep(r)
            => (/\ users'[local[r].id].isVerified = TRUE
                /\ ~HasToken(users'[local[r].id])
                /\ resp'[r] = <<Redirect("success")>>)]_vars

\* a verify request with a stored token was answered status=success and its
\* user is verified and holds no token
C2_Witness ==
    \E r \in Reqs :
        /\ kind[r] = "verify" /\ resp[r] = <<Redirect("success")>>
        /\ users[local[r].id].isVerified = TRUE
        /\ ~HasToken(users[local[r].id])
        /\ \E q \in Reqs : kind[q] = "signup" /\ local[q].id = local[r].id
                /\ local[q].user.verificationToken = req[r].token

(***************************************************************************)
(* C3                                                                      *)
(***************************************************************************)
\* C3: in every reachable state every stored user has a verificationToken
\* if and only if its isVerified is false.
C3_TokenIffUnverified ==
    \A i \in Ids(users) : HasToken(users[i]) <=> (users[i].isVerified = FALSE)

\* after two sign-ups and one verify, the store holds a verified user
\* without token next to an unverified user with one
C3_Witness ==
    /\ \E i \in Ids(users) : users[i].isVerified /\ ~HasToken(users[i])
    /\ \E i \in Ids(users) : ~users[i].isVerified /\ HasToken(users[i])

(***************************************************************************)
(* C4                                                                      *)
(***************************************************************************)
\* C4: in every reachable state no two stored users have emails that are
\* equal when compared case-insensitively.
C4_OneUserPerEmail ==
    \A i \in Ids(users) : \A j \in Ids(users) :
        i # j => lowercase(users[i].email) # lowercase(users[j].email)

\* sign-ups for "Ann@X.com" and for "ann@x.com" both called save() and both
\* were answered, and the store holds one record for that email
C4_Witness ==
    \E r \in Reqs : \E q \in Reqs :
        /\ CalledSave(r) /\ req[r].email = EmailAnnMixed /\ pc[r] = "done"
        /\ CalledSave(q) /\ req[q].email = EmailAnnLower /\ pc[q] = "done"
        /\ ValidationErrors(local[q].user) = {}
        /\ Cardinality({i \in Ids(users) : users[i].email = EmailAnnLower}) = 1

(***************************************************************************)
(* C5                                                                      *)
(***************************************************************************)
\* the body passes the entity's validators (which do not read the token)
EntityValid(body) ==
    ValidationErrors(NewUser(body.fullName, body.email, body.password, <<>>, 0)) = {}

\* the sign-ups for email e that pass the handler's and the entity's checks
ValidSignupsFor(e) ==
    {r \in Reqs : /\ kind[r] = "signup"
                  /\ SignupCheck(req[r]) = "ok"
                  /\ EntityValid(req[r])
                  /\ CastEmail(req[r].email) = e}

SignupEmails ==
    {CastEmail(req[r].email) : r \in {q \in Reqs : kind[q] = "signup" /\ Truthy(req[q], "email")}}

\* a sign-up that finds its email registered, at the lookup or at the
\* insert, is answered 400 "A user with this email already exists." and
\* stores nothing
DuplicateAnswered400 ==
    \A r \in Reqs :
        /\ (/\ SignupLookupStep(r)
            /\ SignupCheck(req'[r]) = "ok"
            /\ findOneByEmail(users, req'[r].email) # 0)
                => (resp'[r] = <<Duplicate>> /\ users' = users)
        /\ (/\ SignupSaveStep(r)
            /\ ValidationErrors(local[r].user) = {}
            /\ findOneByEmail(users, req[r].email) # 0)
                => (resp'[r] = <<Duplicate>> /\ users' = users)

\* once all valid sign-ups for an email are answered, exactly one got 201
ExactlyOneCreated ==
    \A e \in SignupEmails :
        (ValidSignupsFor(e) # {} /\ \A r \in ValidSignupsFor(e) : pc[r] = "done")
            => Cardinality({r \in ValidSignupsFor(e) : resp[r] = <<Created>>}) = 1

\* at no time more than one sign-up for an email has been answered 201
AtMostOneCreated ==
    \A r \in Reqs : \A q \in Reqs :
        (/\ r # q
         /\ kind[r] = "signup" /\ resp[r] = <<Created>>
         /\ kind[q] = "signup" /\ resp[q] = <<Created>>)
            => CastEmail(req[r].email) # CastEmail(req[q].email)

\* C5 (as stated): a sign-up for a registered email, or one that loses the
\* race to the insert, is answered the duplicate-email 400, and exactly one
\* of the sign-ups for one email is answered 201.
C5_DuplicateRejectedExactlyOneCreated ==
    [][DuplicateAnswered400]_vars /\ []ExactlyOneCreated

\* C5 (amended): the same, with at most one of the sign-ups for one email
\* answered 201.
C5_DuplicateRejectedAtMostOneCreated ==
    [][DuplicateAnswered400]_vars /\ []AtMostOneCreated

\* two sign-ups for one email both passed the lookup and called save(); one
\* was answered 201 and the other, rejected by the unique index, 400
C5_Witness ==
    \E r \in Reqs : \E q \in Reqs :
        /\ r # q /\ CalledSave(r) /\ CalledSave(q)
        /\ CastEmail(req[r].email) = CastEmail(req[q].email)
        /\ resp[r] = <<Created>>
        /\ resp[q] = <<Duplicate>>

(***************************************************************************)
(* C6                                                                      *)
(***************************************************************************)
\* C6: a verify request whose token no stored user holds (never issued, or
\* cleared by an earlier verification) is answered 400 "Invalid or expired
\* verification token." and changes no user record.
C6_UnknownTokenRejected ==
    [][\A r \in Reqs :
        (/\ VerifyLookupStep(r)
         /\ Truthy(req'[r], "token")
         /\ Holders(users, req'[r].token) = {})
            => (resp'[r] = <<InvalidToken>> /\ users' = users)]_vars

\* a verify request with a token no sign-up has drawn was answered the
\* invalid-token 400 while the store holds an unverified user
C6_Witness ==
    \E r \in Reqs :
        /\ kind[r] = "verify" /\ resp[r] = <<InvalidToken>>
        /\ \A q \in Reqs : CalledSave(q) => local[q].user.verificationToken # req[r].token
        /\ \E i \in Ids(users) : ~users[i].isVerified /\ HasToken(users[i])

(***************************************************************************)
(* C7                                                                      *)
(***************************************************************************)
\* some verify request with token t has been answered status=success
SucceededWith(t) ==
    \E q \in Reqs : /\ kind[q] = "verify" /\ Truthy(req[q], "token")
                    /\ req[q].token = t
                    /\ resp[q] = <<Redirect("success")>>

\* C7 (as stated): after a verify request with token T has succeeded, a
\* repeated verify request with T is answered the redirect with
\* status=already_verified.
C7_RepeatAlreadyVerified ==
    [][\A r \in Reqs :
        (/\ VerifyLookupStep(r)
         /\ Truthy(req'[r], "token")
         /\ SucceededWith(req'[r].token))
            => resp'[r] = <<Redirect("already_verified")>>]_vars

\* C7 (amended): after a verify request with token T has succeeded, a
\* repeated verify request with T is never answered status=already_verified;
\* as long as no user holds T it is answered the invalid-token 400.
C7_RepeatInvalidToken ==
    [][\A r \in Reqs :
        (/\ VerifyLookupStep(r)
         /\ Truthy(req'[r], "token")
         /\ SucceededWith(req'[r].token))
            => (/\ resp'[r] # <<Redirect("already_verified")>>
                /\ Holders(users, req'[r].token) = {}
                        => resp'[r] = <<InvalidToken>>)]_vars

\* a verify request succeeded and a later one with the same token was
\* answered the invalid-token 400
C7_Witness ==
    \E r \in Reqs : \E q \in Reqs :
        /\ q < r /\ kind[q] = "verify" /\ kind[r] = "verify"
        /\ Truthy(req[q], "token") /\ Truthy(req[r], "token")
        /\ req[q].token = req[r].token
        /\ resp[q] = <<Redirect("success")>>
        /\ resp[r] = <<InvalidToken>>

(***************************************************************************)
(* C8                                                                      *)
(***************************************************************************)
\* C8: a token is single-use: of the verify requests carrying the token of
\* one user, at most one is answered status=success.
C8_TokenSingleUse ==
    \A r \in Reqs : \A q \in Reqs :
        (/\ r # q
         /\ kind[r] = "verify" /\ kind[q] = "verify"
         /\ resp[r] = <<Redirect("success")>>
         /\ resp[q] = <<Redirect("success")>>)
            => ~(local[r].id = local[q].id /\ req[r].token = req[q].token)

(***************************************************************************)
(* C9                                                                      *)
(***************************************************************************)
\* C9: the step that persists a sign-up's record answers 201; a sign-up
\* whose mail is pending, sent or failed has been answered 201; and the
\* outcome of the mail changes no response and no stored record.
C9_MailOutcomeIgnored ==
    [][\A r \in Reqs :
        /\ (SignupSaveStep(r) /\ Len(users') > Len(users))
                => (resp'[r] = <<Created>> /\ mail'[r].state = "pending")
        /\ mail'[r].state # "none" => resp'[r] = <<Created>>
        /\ (mail[r].state = "pending" /\ mail'[r] # mail[r])
                => (resp' = resp /\ users' = users)]_vars

\* a sign-up's mail failed; the sign-up stays answered 201 and its record
\* stays stored as it was inserted
C9_Witness ==
    \E r \in Reqs :
        /\ mail[r].state = "error"
        /\ resp[r] = <<Created>>
        /\ local[r].id \in Ids(users)
        /\ users[local[r].id] = local[r].user

(***************************************************************************)
(* C10                                                                     *)
(***************************************************************************)
IndexOf(seq, x) ==
    IF \E i \in 1..Len(seq) : seq[i] = x
    THEN SetMin({i \in 1..Len(seq) : seq[i] = x})
    ELSE 0

\* the value of the href attribute of the mail's anchor
Href(html) ==
    LET a == IndexOf(html, "<a href=\"")
        b == IndexOf(html, "\" style=")
    IN  IF a = 0 \/ b <= a THEN <<>> ELSE SubSeq(html, a + 1, b - 1)

\* the value of the token query parameter of a link, <<>> if it has none
TokenParam(url) ==
    LET k == IndexOf(url, "/thank-you-verify.html?token=")
    IN  IF k = 0 THEN <<>> ELSE SubSeq(url, k + 1, Len(url))

\* C10: the link in the mail of a sign-up carries, as its token parameter,
\* the verificationToken stored on the record the sign-up created.
C10_MailCarriesStoredToken ==
    \A r \in Reqs :
        mail[r].state # "none"
            => TokenParam(Href(mail[r].options.html)) = local[r].user.verificationToken

(***************************************************************************)
(* C12                                                                     *)
(***************************************************************************)
\* C12: the stored password hash of a user is written at sign-up and never
\* changed afterwards; no step, and in particular no verify request that
\* sets isVerified and clears the token, changes the password, fullName,
\* email or createdAt of a stored user.
C12_HashWrittenOnce ==
    [][\A i \in Ids(users) :
        /\ i \in Ids(users')
        /\ users'[i].password = users[i].password
        /\ users'[i].fullName = users[i].fullName
        /\ users'[i].email = users[i].email
        /\ users'[i].createdAt = users[i].createdAt]_vars

\* a verify request was answered status=success and its user, now verified,
\* still stores the hash its sign-up inserted
C12_Witness ==
    \E r \in Reqs : \E q \in Reqs :
        /\ kind[r] = "verify" /\ resp[r] = <<Redirect("success")>>
        /\ kind[q] = "signup" /\ local[q].id = local[r].id
        /\ users[local[r].id].isVerified
        /\ users[local[r].id].password = local[q].user.password
        /\ users[local[r].id].password # req[q].password

(***************************************************************************)
(* C13                                                                     *)
(***************************************************************************)
\* C13: a sign-up whose insert is rejected because its freshly drawn token
\* is the token of a stored record is answered 400 (a conflict, not a 500)
\* and creates no record.
C13_TokenConflictAnswered400 ==
    [][\A r \in Reqs :
        (/\ SignupSaveStep(r)
         /\ ValidAndUnregistered(r)
         /\ Holders(users, local[r].user.verificationToken) # {})
            => (/\ Len(resp'[r]) = 1
                /\ resp'[r][1].status = 400
                /\ users' = users)]_vars

(***************************************************************************)
(* C15                                                                     *)
(***************************************************************************)
\* C15: a sign-up that passed the handler's three checks but whose fullName
\* is empty once trimmed is answered 400 with the validation message of
\* the entity, stores no record and dispatches no mail.
C15_EntityValidationAnswered400 ==
    [][\A r \in Reqs :
        (SignupSaveStep(r) /\ trim(req[r].fullName) = <<>>)
            => (/\ resp'[r] = <<Json(400,
                        "User validation failed: fullName: Full name is required")>>
                /\ users' = users
                /\ mail' = mail
                /\ mail[r] = NoMail)]_vars

\* a sign-up with a fullName of one space passed the handler's checks and
\* was answered the 400 of the entity's validation; no mail was dispatched
C15_Witness ==
    \E r \in Reqs :
        /\ CalledSave(r) /\ req[r].fullName = NameBlank
        /\ SignupCheck(req[r]) = "ok"
        /\ pc[r] = "done"
        /\ resp[r][1].status = 400
        /\ resp[r][1].body = ValidationMessage({"fullName"})
        /\ mail[r] = NoMail

(***************************************************************************)
(* C17                                                                     *)
(***************************************************************************)
\* C17: in every step every stored user stays stored, a verified user stays
\* verified and a user without a token stays without one; and a sign-up
\* step answered with the 400 of a registered email leaves every stored
\* user (token, isVerified and password hash included) as it was.
C17_UserMonotone ==
    [][/\ \A i \in Ids(users) :
            /\ i \in Ids(users')
            /\ users[i].isVerified => users'[i].isVerified
            /\ ~HasToken(users[i]) => ~HasToken(users'[i])
       /\ \A r \in Reqs :
            (/\ pc[r] # "done" /\ kind'[r] = "signup"
             /\ resp'[r] = <<Duplicate>>)
                => users' = users]_vars

\* a user created by a sign-up was verified by a verify request and holds no
\* token, and a later sign-up with its email was answered the duplicate 400
C17_Witness ==
    \E r \in Reqs : \E q \in Reqs : \E v \in Reqs :
        /\ kind[r] = "signup" /\ resp[r] = <<Duplicate>>
        /\ kind[q] = "signup" /\ resp[q] = <<Created>> /\ q < r
        /\ kind[v] = "verify" /\ resp[v] = <<Redirect("success")>>
        /\ local[v].id = local[q].id
        /\ users[local[q].id].isVerified
        /\ ~HasToken(users[local[q].id])
        /\ users[local[q].id].email = CastEmail(req[r].email)

(***************************************************************************)
(* C18                                                                     *)
(***************************************************************************)
\* C18: a user that is verified after a step and was not (or was not
\* stored) before it, was updated by the save of a verify request whose
\* token is the token that user stored before the step; the save of a
\* verify request changes no other user; so no sign-up step and no mail
\* outcome verifies anybody.
C18_VerifiedOnlyByOwnToken ==
    [][/\ \A i \in Ids(users') :
            (users'[i].isVerified /\ (i \in Ids(users) => ~users[i].isVerified))
                => \E r \in Reqs :
                    /\ VerifySaveStep(r)
                    /\ local[r].id = i
                    /\ i \in Ids(users)
                    /\ HasToken(users[i])
                    /\ users[i].verificationToken = req[r].token
       /\ \A r \in Reqs :
            VerifySaveStep(r)
                => /\ Len(users') = Len(users)
                   /\ \A j \in Ids(users) \ {local[r].id} : users'[j] = users[j]]_vars

\* two users are stored; one was verified by a request carrying its token,
\* the other one is still unverified and holds its own token
C18_Witness ==
    \E r \in Reqs : \E j \in Ids(users) :
        /\ kind[r] = "verify" /\ resp[r] = <<Redirect("success")>>
        /\ users[local[r].id].isVerified
        /\ j # local[r].id
        /\ ~users[j].isVerified /\ HasToken(users[j])
        /\ users[j].verificationToken # req[r].token

(***************************************************************************)
(* C14                                                                     *)
(***************************************************************************)
\* C14: the connection is attempted once per process start; when that
\* attempt has failed the process has exited with code 1, and from then on
\* no request is answered and nothing else changes.
C14_FailFast ==
    /\ [](/\ proc.connects = 1
          /\ proc.db = "failed" => (proc.exited /\ proc.exitCode = 1))
    /\ [][proc.exited => (resp' = resp /\ users' = users /\ pc' = pc)]_vars

\* the connection failed and the process has exited, after it answered a
\* request that needs no store and before it served its other requests
C14_Witness ==
    /\ proc.db = "failed" /\ proc.exited /\ proc.exitCode = 1
    /\ \E r \in Reqs : pc[r] = "done" /\ resp[r][1].status = 400
    /\ \E r \in Reqs : pc[r] = "idle"

(***************************************************************************)
(* C16                                                                     *)
(***************************************************************************)
\* C16: a request hands at most one mail to the transporter; a request that
\* handed one over is a sign-up answered 201 whose record is stored; a
\* request answered 400 or 500 handed none over; and once the delivery has
\* failed (or succeeded) the mail of the request never changes again.
C16_OneMailAfterPersist ==
    /\ [](\A r \in Reqs :
            /\ mail[r].attempts <= 1
            /\ mail[r].attempts = 1 =>
                /\ kind[r] = "signup" /\ resp[r] = <<Created>>
                /\ local[r].id \in Ids(users)
                /\ users[local[r].id].email = CastEmail(req[r].email)
                /\ mail[r].options.to = users[local[r].id].email
            /\ (resp[r] # <<>> /\ resp[r][1].status \in {400, 500}) =>
                mail[r].attempts = 0)
    /\ [][\A r \in Reqs :
            mail[r].state \in {"sent", "error"} => mail'[r] = mail[r]]_vars

\* one sign-up was answered 500 and one 400 without a mail, and the single
\* mail of a created sign-up has failed
C16_Witness ==
    \E r \in Reqs : \E q \in Reqs : \E d \in Reqs :
        /\ kind[r] = "signup" /\ resp[r] = <<Send(500, "Server Error")>>
        /\ mail[r] = NoMail
        /\ kind[d] = "signup" /\ resp[d] = <<Duplicate>> /\ mail[d] = NoMail
        /\ resp[q] = <<Created>>
        /\ mail[q].state = "error" /\ mail[q].attempts = 1

(***************************************************************************)
(* C11                                                                     *)
(***************************************************************************)
\* a field of the body is absent or empty
Missing(body) ==
    \E k \in {"fullName", "email", "password"} : k \notin DOMAIN body \/ body[k] = <<>>

\* the message the three checks are specified to answer, in their order
FirstFailingCheck(body) ==
    IF Missing(body) THEN MsgAllFields
    ELSE IF Len(body.password) <= 7 THEN MsgPassword
    ELSE IF ~emailPattern(body.email) THEN MsgEmail
    ELSE "ok"

CheckMessages == {MsgAllFields, MsgPassword, MsgEmail}

\* C11: a sign-up is answered 400 with the message of the first failing
\* check in the order presence, password length >= 8, email shape, in the
\* step it arrives, storing nothing and sending no mail; a body passing the
\* three checks (a password of length 8 included) gets none of the three
\* messages; and a request answered with one of them never has a record
\* or a mail.
C11_ChecksInOrder ==
    /\ [][\A r \in Reqs :
            SignupLookupStep(r) =>
                IF FirstFailingCheck(req'[r]) # "ok"
                THEN /\ resp'[r] = <<Json(400, FirstFailingCheck(req'[r]))>>
                     /\ users' = users
                     /\ mail' = mail
                ELSE /\ \A m \in CheckMessages : resp'[r] # <<Json(400, m)>>]_vars
    /\ [](\A r \in Reqs :
            (kind[r] = "signup" /\ resp[r] # <<>> /\ resp[r][1].body \in CheckMessages)
                => (/\ mail[r] = NoMail
                    /\ local[r] = NoLocal
                    /\ \A i \in Ids(users) : \E q \in Reqs \ {r} :
                            kind[q] = "signup" /\ local[q].id = i))

\* a password of length 7 with a malformed email was answered the password
\* message, and the same name with a password of length 8 was stored
C11_Witness ==
    \E r \in Reqs : \E q \in Reqs :
        /\ kind[r] = "signup" /\ ~Missing(req[r])
        /\ Len(req[r].password) = 7 /\ ~emailPattern(req[r].email)
        /\ resp[r] = <<Json(400, MsgPassword)>>
        /\ kind[q] = "signup" /\ ~Missing(req[q])
        /\ Len(req[q].password) = 8
        /\ resp[q] = <<Created>>
        /\ Len(users) = 1

(***************************************************************************)
(* C19                                                                     *)
(***************************************************************************)
\* the store answers request r's pending save(), one way or the other
SaveSettles(r) ==
    SignupSave(r) \/ SignupSaveError(r) \/ VerifySave(r) \/ VerifySaveError(r)

\* C19: no request has more than one response; a request has its response
\* exactly when its handler is done; a request still waiting for the store
\* is answered by the step that settles its save(); and a verify request
\* whose token is absent or empty has the 400 "Verification token missing."
\* as its response and never loaded a user.
C19_AnsweredExactlyOnce ==
    /\ [](\A r \in Reqs :
            /\ Len(resp[r]) <= 1
            /\ (kind[r] # "idle" /\ pc[r] = "done") <=> Len(resp[r]) = 1
            /\ (kind[r] # "idle" /\ pc[r] # "done") =>
                    (pc[r] = "save" /\ ENABLED SaveSettles(r))
            /\ (kind[r] = "verify" /\ ("token" \notin DOMAIN req[r] \/ req[r].token = <<>>))
                    => (/\ resp[r] = <<Send(400, "Verification token missing.")>>
                        /\ local[r] = NoLocal))
    /\ [][\A r \in Reqs :
            (pc[r] = "save" /\ <<pc[r], resp[r], local[r], mail[r]>>'
                                # <<pc[r], resp[r], local[r], mail[r]>>)
                => (Len(resp[r]) = 0 /\ Len(resp'[r]) = 1 /\ pc'[r] = "done")]_vars

\* a verify request with an empty token was answered the 400 of the missing
\* token, and a later sign-up whose save() was rejected was answered 500
C19_Witness ==
    \E r \in Reqs : \E q \in Reqs :
        /\ kind[r] = "verify" /\ "token" \in DOMAIN req[r] /\ req[r].token = <<>>
        /\ resp[r] = <<Send(400, MsgTokenMissing)>>
        /\ r < q
        /\ kind[q] = "signup" /\ CalledSave(q)
        /\ resp[q] = <<Send(500, "Server Error")>>

====
